---- MODULE Spec2Model ----
(***************************************************************************)
(* Model of rodarribas/AEP-Alertas:                                        *)
(*   src/src/events_automation/script_alertas.py  (BatchProcessor)        *)
(*   src/config/logging_config.py                 (LoggerManager)         *)
(*                                                                         *)
(* Python values are modelled as tagged records (field t is the Python     *)
(* type), so that None, str, int, dict and the BatchProcessor instance     *)
(* can flow through the same parameter, as they do in the source.  An      *)
(* exception raised by a function is the value [t |-> "exc", exc |-> name].*)
(* Formatted strings (f-strings) are tuples of their fragments.            *)
(***************************************************************************)
EXTENDS Integers, Sequences, FiniteSets, TLC

VARIABLES
    pc,                 \* position of the caller / of process_and_notify
    server,             \* the remote API: [api, locations, files] responses
    failed_batches,     \* process_and_notify local / build argument
    processed_batches,  \* process_and_notify local / build argument
    error_message,      \* process_and_notify local / build argument
    days_back,          \* build argument (direct call)
    dataset_id,         \* build argument (direct call)
    failed_urls,        \* _process_failed_batches local (insertion-ordered dict)
    batch_data_map,     \* _process_failed_batches local (dict batch_id -> list)
    bi,                 \* index of the batch the current for loop is at
    ui,                 \* index of the url the inner for loop is at (0: before line 92)
    card_message,       \* the message built / handed to post_message_to_google_chat
    posts,              \* number of requests.post calls made to the webhook
    log,                \* levels logged by post_message_to_google_chat
    exc,                \* the exception that ended the call, or "none"
    dir,                \* names of the files in log_directory
    backup_count,       \* LoggerManager.backup_count
    lpc,                \* per process: position in the constructor being run
    handlers,           \* per process: handlers of the root logger
    log_files,          \* per process: local list of _cleanup_old_logs
    built               \* per process: constructions completed (LoggerManager, BatchProcessor)

runVars == <<pc, server, failed_batches, processed_batches, error_message, days_back,
             dataset_id, failed_urls, batch_data_map, bi, ui, card_message, posts, log, exc>>
logVars == <<dir, backup_count, lpc, handlers, log_files, built>>
vars == <<runVars, logVars>>

(***************************************************************************)
(* Bounds of the model                                                     *)
(***************************************************************************)
MaxBatches == 2
MaxConstructions == 2
MaxBackupCount == 2

(***************************************************************************)
(* Python values                                                           *)
(***************************************************************************)
None == [t |-> "None"]
Absent == [t |-> "absent"]
Self == [t |-> "BatchProcessor"]
PyStr(s) == [t |-> "str", s |-> s]
PyInt(n) == [t |-> "int", n |-> n]
List(xs) == [t |-> "list", items |-> xs]
BatchDict(bs) == [t |-> "dict", batches |-> bs]
MapDict(m) == [t |-> "dict", map |-> m]
Raise(name) == [t |-> "exc", exc |-> name]
IsExc(x) == x.t = "exc"

\* Python truth value of x (bool(x)).
Truthy(x) ==
    CASE x.t = "None" -> FALSE
      [] x.t = "absent" -> FALSE
      [] x.t = "str" -> x.s # ""
      [] x.t = "int" -> x.n # 0
      [] x.t = "list" -> x.items # <<>>
      [] x.t = "dict" /\ "batches" \in DOMAIN x -> x.batches # <<>>
      [] x.t = "dict" /\ "map" \in DOMAIN x -> DOMAIN x.map # {}
      [] x.t = "dict" /\ "cards" \in DOMAIN x -> TRUE
      [] OTHER -> x.t = "BatchProcessor"

\* dict.get(key, default) on a batch_info / tags record: a missing key is Absent.
Get(d, key, default) == IF d[key].t = "absent" THEN default ELSE d[key]

NoDisponible == "No disponible"

\* str(x) as an f-string renders it.
Fragment(x) ==
    CASE x.t = "str" -> x.s
      [] x.t = "int" -> ToString(x.n)
      [] x.t = "None" -> "None"
      [] OTHER -> "<repr>"

(***************************************************************************)
(* BatchProcessor.build_card_message                                       *)
(***************************************************************************)
TextParagraph(text) == [w |-> "textParagraph", text |-> text]
KeyValue(content) == [w |-> "keyValue", text |-> <<"Página de origen del evento", content>>]
NoEventsWidget == TextParagraph(<<"No se encontraron eventos para este batch.">>)
Card(title, sections) ==
    [t |-> "dict", cards |-> List(<< [header |-> title, sections |-> sections] >>)]

\* int(days_back * 24)
Hours(db) ==
    CASE db.t = "int" -> PyInt(db.n * 24)
      [] db.t = "str" -> Raise("ValueError")
      [] OTHER -> Raise("TypeError")

\* line 128-150: the error report
ErrorCard(msg) ==
    Card("¡Algo ha salido mal!", << [widgets |-> << TextParagraph(<<Fragment(msg)>>) >>] >>)

\* line 152-175: the "no errors" report
NoErrorsCard(db, ds) ==
    LET h == Hours(db) IN
    IF IsExc(h) THEN h
    ELSE Card("Informe de alertas",
              << [widgets |-> << TextParagraph(<<"No se encontraron errores en las últimas",
                                                Fragment(h), "horas.", "Dataset ID:",
                                                Fragment(ds)>>) >>] >>)

\* line 208: tags.get("flowId", ["No disponible"])[0], tags = batch_info.get("tags", [])
FlowId(batch_info) ==
    LET tags == Get(batch_info, "tags", List(<<>>)) IN
    IF tags.t # "dict" THEN Raise("AttributeError")
    ELSE LET flow == Get(tags, "flowId", List(<<NoDisponible>>)) IN
         IF flow.items = <<>> THEN Raise("IndexError") ELSE PyStr(flow.items[1])

\* line 229-244: one widget pair per record of the batch
RECURSIVE RecordWidgets(_)
RecordWidgets(records) ==
    IF records = <<>> THEN <<>>
    ELSE << TextParagraph(<<"Tipo de evento:", Head(records).eventType>>),
            KeyValue(Head(records).webPageURL) >> \o RecordWidgets(Tail(records))

\* line 228-250: the widgets after the batch details, or the exception raised
EventWidgets(batch_id, pb) ==
    IF pb.t = "dict" /\ "map" \in DOMAIN pb
    THEN IF batch_id \in DOMAIN pb.map
         THEN [t |-> "widgets", widgets |-> RecordWidgets(pb.map[batch_id])]
         ELSE [t |-> "widgets", widgets |-> << NoEventsWidget >>]
    ELSE IF pb.t = "dict" /\ "batches" \in DOMAIN pb
              /\ \A i \in 1..Len(pb.batches) : pb.batches[i].id # batch_id
    THEN [t |-> "widgets", widgets |-> << NoEventsWidget >>]
    ELSE Raise("TypeError")

\* line 200-252: the body of the for loop, for one batch
BatchSection(batch_info, pb) ==
    LET related_objects == Get(batch_info, "relatedObjects", List(<<>>))
        errors == Get(batch_info, "errors", List(<<>>))
        ds == IF Truthy(related_objects) THEN related_objects.items[1].id ELSE NoDisponible
        error_code == IF Truthy(errors) THEN errors.items[1].code ELSE NoDisponible
        error_description == IF Truthy(errors) THEN errors.items[1].description
                             ELSE NoDisponible
        flow_id == FlowId(batch_info)
        events == EventWidgets(batch_info.id, pb)
    IN  IF IsExc(flow_id) THEN flow_id
        ELSE IF IsExc(events) THEN events
        ELSE [t |-> "section",
              widgets |-> << TextParagraph(<<"Batch ID:", batch_info.id,
                                             "Dataflow:", flow_id.s,
                                             "Dataset ID:", ds,
                                             "Código de error:", error_code,
                                             "Descripción:", error_description>>) >>
                           \o events.widgets]

\* line 200-252: the for loop; the sections appended, or the first exception raised
RECURSIVE BatchSections(_, _)
BatchSections(batches, pb) ==
    IF batches = <<>> THEN [t |-> "sections", sections |-> <<>>]
    ELSE LET first == BatchSection(Head(batches), pb) IN
         IF IsExc(first) THEN first
         ELSE LET rest == BatchSections(Tail(batches), pb) IN
              IF IsExc(rest) THEN rest
              ELSE [t |-> "sections",
                    sections |-> << [widgets |-> first.widgets] >> \o rest.sections]

\* line 177-254: the detail report
DetailCard(fb, pb, db) ==
    LET h == Hours(db) IN
    IF IsExc(h) THEN h
    ELSE IF ~(fb.t = "dict" /\ "batches" \in DOMAIN fb) THEN Raise("TypeError")
    ELSE LET body == BatchSections(fb.batches, pb) IN
         IF IsExc(body) THEN body
         ELSE Card("Informe de alertas",
                   << [widgets |-> << TextParagraph(<<"Se han consultado las últimas",
                                                     Fragment(h),
                                                     "horas. Número total de errores:",
                                                     ToString(Len(fb.batches))>>) >>] >>
                   \o body.sections)

\* build_card_message with the "no batches" test made before the error test
build_card_message_EmptyFirst(fb, pb, db, ds, msg) ==
    IF ~Truthy(fb) THEN NoErrorsCard(db, ds)
    ELSE IF Truthy(msg) THEN ErrorCard(msg)
    ELSE DetailCard(fb, pb, db)

\* build_card_message(failed_batches, processed_batches, days_back, dataset_id,
\*                    error_message=None): the card, or the exception raised
build_card_message(fb, pb, db, ds, msg) ==
    IF Truthy(msg) THEN ErrorCard(msg)
    ELSE IF ~Truthy(fb) THEN NoErrorsCard(db, ds)
    ELSE DetailCard(fb, pb, db)

(***************************************************************************)
(* BatchProcessor.post_message_to_google_chat                              *)
(***************************************************************************)
\* What the webhook POST can do: answer 200, answer another status, or fail in
\* transport (requests.post raises; line 262 is in no try block).
PostOutcomes == {"200", "500", "ConnectionError"}

\* post_message_to_google_chat testing only for None, not for missing cards
post_message_to_google_chat_NoneOnly(message, outcome) ==
    IF message.t = "None"
    THEN [posts |-> 0, log |-> <<"ERROR">>, exc |-> "none"]
    ELSE CASE outcome = "200" -> [posts |-> 1, log |-> <<"INFO">>, exc |-> "none"]
           [] outcome = "ConnectionError" ->
                [posts |-> 1, log |-> <<>>, exc |-> "ConnectionError"]
           [] OTHER -> [posts |-> 1, log |-> <<"ERROR", "ERROR">>, exc |-> "none"]

\* line 256-267: the POSTs made, the levels logged and the exception raised
post_message_to_google_chat(message, outcome) ==
    IF message.t = "None" \/ ~Truthy(Get(message, "cards", None))
    THEN [posts |-> 0, log |-> <<"ERROR">>, exc |-> "none"]
    ELSE CASE outcome = "200" -> [posts |-> 1, log |-> <<"INFO">>, exc |-> "none"]
           [] outcome = "ConnectionError" ->
                [posts |-> 1, log |-> <<>>, exc |-> "ConnectionError"]
           [] OTHER -> [posts |-> 1, log |-> <<"ERROR", "ERROR">>, exc |-> "none"]

(***************************************************************************)
(* The remote API, as the run sees it                                      *)
(***************************************************************************)
BatchId(i) == <<"b1", "b2", "b3", "b4">>[i]
URLs == {"u1", "u2"}
\* an item of the location response whose _links.self.href is missing or null
NoHref == "<no href>"

FullRelated == List(<< [id |-> "ds1"] >>)
FullErrors == List(<< [code |-> "E42", description |-> "ingest failed"] >>)
FullTags == [t |-> "dict", flowId |-> List(<<"flow1">>)]

\* The shapes of a batch object (its id aside): every key present, and each key
\* in turn absent or empty.
BatchShapes ==
    { [failedBatchLocation |-> loc, relatedObjects |-> FullRelated,
       errors |-> FullErrors, tags |-> FullTags] : loc \in {Absent, PyStr("loc")} }
    \cup { [failedBatchLocation |-> Absent, relatedObjects |-> ro,
            errors |-> FullErrors, tags |-> FullTags] : ro \in {Absent, List(<<>>)} }
    \cup { [failedBatchLocation |-> Absent, relatedObjects |-> FullRelated,
            errors |-> er, tags |-> FullTags] : er \in {Absent, List(<<>>)} }
    \cup { [failedBatchLocation |-> Absent, relatedObjects |-> FullRelated,
            errors |-> FullErrors, tags |-> tg] :
            tg \in {Absent, [t |-> "dict", flowId |-> Absent],
                    [t |-> "dict", flowId |-> List(<<>>)]} }

\* the batches the run is given: complete objects, with or without a location
RunShapes == { sh \in BatchShapes : sh.relatedObjects = FullRelated
                 /\ sh.errors = FullErrors /\ sh.tags = FullTags }

WithId(sh, i) ==
    [id |-> BatchId(i), failedBatchLocation |-> sh.failedBatchLocation,
     relatedObjects |-> sh.relatedObjects, errors |-> sh.errors, tags |-> sh.tags]

\* the ordered maps of at most MaxBatches batches with shapes in Shapes
BatchMaps(Shapes) ==
    UNION { { [i \in 1..n |-> WithId(f[i], i)] : f \in [1..n -> Shapes] } : n \in 0..MaxBatches }

Fail == [ok |-> FALSE]
HrefLists == { <<>>, <<NoHref>>, <<"u1">>, <<"u2", NoHref, "u1">>, <<"u1", "u1">> }
LocationResponses == {Fail} \cup { [ok |-> TRUE, data |-> hs] : hs \in HrefLists }

\* lines of an event file
EventLine == "{body:{xdmEntity:{eventType:pageview,web:{webPageDetails:{URL:http://x}}}}}"
NoWebLine == "{body:{xdmEntity:{eventType:click}}}"
EmptyObjLine == "{}"
BadLine == "{bad"
NonObjLine == "[]"
Bodies == { <<>>, <<EventLine>>, <<BadLine, NoWebLine>>, <<EventLine, BadLine, EmptyObjLine>>,
            <<EventLine, NonObjLine, EventLine>> }
FileResponses == {Fail} \cup { [ok |-> TRUE, lines |-> ls] : ls \in Bodies }

\* a server whose top-level GET fails (transport or HTTP error)
NoServer ==
    [status |-> "error", api |-> <<>>,
     locations |-> [i \in 1..MaxBatches |-> Fail], files |-> [u \in URLs |-> Fail]]

\* json.loads(line): the value, or JSONDecodeError
JsonLoads(line) ==
    CASE line = EventLine -> [t |-> "dict", eventType |-> PyStr("pageview"), URL |-> PyStr("http://x")]
      [] line = NoWebLine -> [t |-> "dict", eventType |-> PyStr("click"), URL |-> Absent]
      [] line = EmptyObjLine -> [t |-> "dict", eventType |-> Absent, URL |-> Absent]
      [] line = NonObjLine -> List(<<>>)
      [] OTHER -> Raise("JSONDecodeError")

(***************************************************************************)
(* BatchProcessor._process_failed_batches                                  *)
(***************************************************************************)
ErrorRecord == [eventType |-> "Error", webPageURL |-> "Error"]
JoinErrorRecord == [eventType |-> "Error de unión", webPageURL |-> NoDisponible]

\* line 82-86: the hrefs kept from the location response
RECURSIVE Hrefs(_)
Hrefs(data) ==
    IF data = <<>> THEN <<>>
    ELSE (IF Head(data) # NoHref THEN <<Head(data)>> ELSE <<>>) \o Hrefs(Tail(data))

\* line 100-114: the record one line yields, or the exception that leaves the loop
ParseLine(line) ==
    LET data == JsonLoads(line) IN
    IF IsExc(data) THEN JoinErrorRecord
    ELSE IF data.t # "dict" THEN Raise("AttributeError")
    ELSE [eventType |-> Get(data, "eventType", PyStr(NoDisponible)).s,
          webPageURL |-> Get(data, "URL", PyStr(NoDisponible)).s]

\* line 99-114: the records appended for the lines of one file, and the exception
\* (if any) that left the loop after them
RECURSIVE LineRecords(_)
LineRecords(lines) ==
    IF lines = <<>> THEN [records |-> <<>>, exc |-> "none"]
    ELSE LET r == ParseLine(Head(lines)) IN
         IF "exc" \in DOMAIN r THEN [records |-> <<>>, exc |-> r.exc]
         ELSE LET rest == LineRecords(Tail(lines)) IN
              [records |-> <<r>> \o rest.records, exc |-> rest.exc]

\* a failed GET that leaves no record behind
UrlRecords_NoPlaceholder(resp) ==
    IF ~resp.ok THEN [records |-> <<>>, exc |-> "none"]
    ELSE LineRecords(resp.lines)

\* line 93-120: what one url appends to its batch's list
UrlRecords(resp) ==
    IF ~resp.ok THEN [records |-> <<ErrorRecord>>, exc |-> "none"]
    ELSE LineRecords(resp.lines)

(***************************************************************************)
(* State shared by the specifications                                      *)
(***************************************************************************)
Procs == {"p1", "p2"}
NoMap == [b \in {} |-> <<>>]

\* no BatchProcessor call is in progress
RunQuiet ==
    /\ pc = "idle"
    /\ server = NoServer
    /\ failed_batches = None /\ processed_batches = None /\ error_message = None
    /\ days_back = PyInt(1) /\ dataset_id = PyStr("dataset123")
    /\ failed_urls = <<>> /\ batch_data_map = NoMap /\ bi = 0 /\ ui = 0
    /\ card_message = None /\ posts = 0 /\ log = <<>> /\ exc = "none"

\* no process has touched logging
LogQuiet ==
    /\ dir = {} /\ backup_count = 0
    /\ lpc = [p \in Procs |-> "idle"]
    /\ handlers = [p \in Procs |-> <<>>]
    /\ log_files = [p \in Procs |-> <<>>]
    /\ built = [p \in Procs |-> <<>>]

(***************************************************************************)
(* Spec: one run of process_and_notify (the script's entry point)          *)
(***************************************************************************)
\* the location answers a run given the batches bs can meet: one per batch that
\* names a location
LocationsFor(bs) ==
    { ls \in [1..MaxBatches -> LocationResponses] :
        \A i \in 1..MaxBatches :
            (i > Len(bs) \/ ~Truthy(bs[i].failedBatchLocation)) => ls[i] = Fail }

\* the file answers a run given the location answers ls can meet: one per url named
FilesFor(ls) ==
    { fs \in [URLs -> FileResponses] :
        \A u \in URLs :
            (\A i \in 1..MaxBatches :
                ~ls[i].ok \/ \A k \in 1..Len(ls[i].data) : ls[i].data[k] # u)
            => fs[u] = Fail }

\* the servers a run can meet: the top-level GET fails, or answers a map of batches
ServersFor(bs) ==
    UNION { { [status |-> "ok", api |-> bs, locations |-> ls, files |-> fs] :
                fs \in FilesFor(ls) } : ls \in LocationsFor(bs) }

Init ==
    /\ \E bs \in BatchMaps(RunShapes) :
          server \in ServersFor(bs) \cup {NoServer}
    /\ pc = "start"
    /\ failed_batches = None /\ processed_batches = None /\ error_message = None
    /\ days_back = PyInt(1) /\ dataset_id = PyStr("dataset123")
    /\ failed_urls = <<>> /\ batch_data_map = NoMap /\ bi = 0 /\ ui = 0
    /\ card_message = None /\ posts = 0 /\ log = <<>> /\ exc = "none"
    /\ LogQuiet

\* get_failed_batches_data, line 43-70, up to the call of _process_failed_batches
get_failed_batches_data ==
    /\ pc = "start"
    /\ IF server.status = "error"
       THEN /\ error_message' = PyStr("<b>Error HTTP:</b>")
            /\ pc' = "build"
            /\ UNCHANGED <<failed_batches, bi>>
       ELSE IF server.api = <<>>
       THEN /\ pc' = "build"
            /\ UNCHANGED <<failed_batches, error_message, bi>>
       ELSE /\ failed_batches' = BatchDict(server.api)
            /\ pc' = "locations"
            /\ bi' = 1
            /\ UNCHANGED error_message
    /\ UNCHANGED <<server, processed_batches, days_back, dataset_id, failed_urls,
                   batch_data_map, ui, card_message, posts, log, exc, logVars>>

\* _process_failed_batches, line 74-88: one iteration of the first loop
\* (and line 90 after the last one)
process_failed_batches_location ==
    /\ pc = "locations"
    /\ LET batch_info == failed_batches.batches[bi]
           resp == server.locations[bi]
       IN  failed_urls' =
             IF Truthy(batch_info.failedBatchLocation) /\ resp.ok
             THEN Append(failed_urls, [id |-> batch_info.id, urls |-> Hrefs(resp.data)])
             ELSE failed_urls
    /\ IF bi = Len(failed_batches.batches)
       THEN pc' = "urls" /\ bi' = 1
       ELSE pc' = pc /\ bi' = bi + 1
    /\ UNCHANGED <<server, failed_batches, processed_batches, error_message, days_back,
                   dataset_id, batch_data_map, ui, card_message, posts, log, exc, logVars>>

\* line 91-92: the second loop reaches a batch and gives it an empty list
process_failed_batches_batch ==
    /\ pc = "urls" /\ bi <= Len(failed_urls) /\ ui = 0
    /\ LET batch_id == failed_urls[bi].id IN
       batch_data_map' = [b \in DOMAIN batch_data_map \cup {batch_id} |->
                            IF b = batch_id THEN <<>> ELSE batch_data_map[b]]
    /\ IF failed_urls[bi].urls = <<>>
       THEN bi' = bi + 1 /\ ui' = 0
       ELSE bi' = bi /\ ui' = 1
    /\ UNCHANGED <<pc, server, failed_batches, processed_batches, error_message, days_back,
                   dataset_id, failed_urls, card_message, posts, log, exc, logVars>>

\* line 93-120: one url of the batch: the GET and every line of its body
process_failed_batches_url ==
    /\ pc = "urls" /\ bi <= Len(failed_urls) /\ ui >= 1
    /\ LET batch_id == failed_urls[bi].id
           url == failed_urls[bi].urls[ui]
           got == UrlRecords(server.files[url])
       IN  /\ batch_data_map' =
                 [batch_data_map EXCEPT ![batch_id] = @ \o got.records]
           /\ IF got.exc # "none"
              THEN pc' = "aborted" /\ exc' = got.exc /\ UNCHANGED <<bi, ui>>
              ELSE /\ UNCHANGED <<pc, exc>>
                   /\ IF ui = Len(failed_urls[bi].urls)
                      THEN bi' = bi + 1 /\ ui' = 0
                      ELSE bi' = bi /\ ui' = ui + 1
    /\ UNCHANGED <<server, failed_batches, processed_batches, error_message, days_back,
                   dataset_id, failed_urls, card_message, posts, log, logVars>>

\* line 122-123 and 271: _process_failed_batches returns to process_and_notify
process_failed_batches_return ==
    /\ pc = "urls" /\ bi > Len(failed_urls)
    /\ processed_batches' = MapDict(batch_data_map)
    /\ pc' = "build"
    /\ UNCHANGED <<server, failed_batches, error_message, days_back, dataset_id,
                   failed_urls, batch_data_map, bi, ui, card_message, posts, log, exc,
                   logVars>>

\* process_and_notify, line 272-273: the bound method call passes self as
\* failed_batches, failed_batches as processed_batches, processed_batches as days_back
\* and error_message as dataset_id; then the message is posted
process_and_notify ==
    /\ pc = "build"
    /\ LET card == build_card_message(Self, failed_batches, processed_batches,
                                      error_message, None)
       IN  IF IsExc(card)
           THEN /\ pc' = "aborted" /\ exc' = card.exc
                /\ UNCHANGED <<card_message, posts, log>>
           ELSE \E outcome \in PostOutcomes :
                  LET sent == post_message_to_google_chat(card, outcome) IN
                  /\ card_message' = card
                  /\ posts' = posts + sent.posts
                  /\ log' = log \o sent.log
                  /\ exc' = sent.exc
                  /\ pc' = IF sent.exc = "none" THEN "done" ELSE "aborted"
    /\ UNCHANGED <<server, failed_batches, processed_batches, error_message, days_back,
                   dataset_id, failed_urls, batch_data_map, bi, ui, logVars>>

Next ==
    \/ get_failed_batches_data
    \/ process_failed_batches_location
    \/ process_failed_batches_batch
    \/ process_failed_batches_url
    \/ process_failed_batches_return
    \/ process_and_notify

Spec == Init /\ [][Next]_vars

(***************************************************************************)
(* Claims about the run                                                    *)
(***************************************************************************)
\* the run has ended, normally or by an exception leaving process_and_notify
Ended == pc \in {"done", "aborted"}

\* the number of urls of failed_urls[k] whose GET has been made
Attempted(k) ==
    IF k < bi THEN Len(failed_urls[k].urls)
    ELSE IF k > bi \/ ui = 0 THEN 0
    ELSE IF pc = "aborted" THEN ui ELSE ui - 1

\* the second loop has given failed_urls[k] its list (line 92)
Entered(k) == failed_urls[k].id \in DOMAIN batch_data_map

\* C1: every run of process_and_notify reaches the notify step: whatever the fetch
\* and the enrichment GETs answer, the run never ends before it has called
\* post_message_to_google_chat with a report.
C1_RunReachesNotify ==
    Ended => (card_message # None /\ (posts = 1 \/ log # <<>>))

\* the position in failed_batches of the batch with this id
IndexOf(batch_id) == CHOOSE i \in 1..Len(server.api) : server.api[i].id = batch_id

\* a batch of the run for which zero file urls were collected: no location, a
\* failed location GET, or a location answer with no non-null href
ZeroUrls(i) ==
    \/ ~Truthy(server.api[i].failedBatchLocation)
    \/ ~server.locations[i].ok
    \/ \A k \in 1..Len(server.locations[i].data) : server.locations[i].data[k] = NoHref

\* the report build_card_message builds from what get_failed_batches_data returned
Report == build_card_message(failed_batches, processed_batches, days_back, dataset_id,
                             error_message)

\* C3: a failed batch for which zero file urls were collected has no entry in the
\* enrichment map _process_failed_batches returns, and its section of the report
\* built from that map holds the "no events found" placeholder widget.
C3_ZeroUrlsPlaceholder ==
    (pc = "build" /\ Truthy(failed_batches)) =>
        \A i \in 1..Len(server.api) :
            ZeroUrls(i) =>
                /\ server.api[i].id \notin DOMAIN processed_batches.map
                /\ \E w \in 1..Len(Report.cards.items[1].sections[i + 1].widgets) :
                      Report.cards.items[1].sections[i + 1].widgets[w] = NoEventsWidget

\* the number of lines of the first n urls that were fetched successfully, plus one
\* for each that was not
RECURSIVE LineCount(_, _)
LineCount(urls, n) ==
    IF n = 0 THEN 0
    ELSE LineCount(urls, n - 1)
         + (IF server.files[urls[n]].ok THEN Len(server.files[urls[n]].lines) ELSE 1)

\* C4: every line of a successfully fetched event file yields exactly one record
\* of its batch (a placeholder when it cannot be turned into an event record), and
\* no line aborts the batch: the records of a batch are as many as the lines of the
\* urls fetched for it.
C4_OneRecordPerLine ==
    /\ ~(pc = "aborted" /\ exc = "AttributeError")
    /\ \A k \in 1..Len(failed_urls) :
          Entered(k) =>
            Len(batch_data_map[failed_urls[k].id]) = LineCount(failed_urls[k].urls, Attempted(k))

\* what the first n urls are to contribute, in order: the single "Error" record for
\* a url whose GET failed, the records of its lines otherwise
RECURSIVE Contribution(_, _)
Contribution(urls, n) ==
    IF n = 0 THEN <<>>
    ELSE Contribution(urls, n - 1)
         \o (IF server.files[urls[n]].ok THEN LineRecords(server.files[urls[n]].lines).records
             ELSE << [eventType |-> "Error", webPageURL |-> "Error"] >>)

\* C5: a transport failure on one file url adds exactly one {"Error", "Error"}
\* record to its batch, leaves the records of earlier urls as they were, and the
\* loop goes on with the next url and the next batches: at every point the list of
\* a batch is the contributions of the urls fetched so far, in discovery order,
\* and a finished enrichment has fetched every url of every batch.
C5_TransportFailureOneRecord ==
    /\ \A k \in 1..Len(failed_urls) :
          /\ failed_urls[k].urls = Hrefs(server.locations[IndexOf(failed_urls[k].id)].data)
          /\ Entered(k) =>
                batch_data_map[failed_urls[k].id]
                    = Contribution(failed_urls[k].urls, Attempted(k))
          /\ ~Entered(k) => (pc = "locations" \/ (pc = "urls" /\ k >= bi)
                                \/ (pc = "aborted" /\ k > bi))
    /\ pc = "build" /\ Truthy(failed_batches) =>
          /\ processed_batches = MapDict(batch_data_map)
          /\ \A k \in 1..Len(failed_urls) : Entered(k)

\* a finished enrichment in which a failed url is followed by a url that was read
C5_Witness ==
    /\ pc = "build" /\ Truthy(failed_batches)
    /\ \E k \in 1..Len(failed_urls) :
          LET urls == failed_urls[k].urls
              records == processed_batches.map[failed_urls[k].id]
          IN  /\ Len(urls) = 2
              /\ ~server.files[urls[1]].ok /\ server.files[urls[2]].ok
              /\ Len(records) >= 2
              /\ records[1].eventType = "Error" /\ records[2].eventType = "pageview"

(***************************************************************************)
(* SpecUnit: build_card_message and post_message_to_google_chat called on  *)
(* their own, with the arguments their signatures declare                  *)
(***************************************************************************)
RecordLists == { <<>>, << [eventType |-> "pageview", webPageURL |-> "http://x"] >> }
ProcessedMaps == UNION { [S -> RecordLists] : S \in SUBSET { BatchId(i) : i \in 1..MaxBatches } }
\* messages that are no report: None, a dict without "cards", a dict with no card
NoReports == { None, [t |-> "dict", cards |-> Absent], [t |-> "dict", cards |-> List(<<>>)] }

InitUnit ==
    /\ server = NoServer
    /\ days_back = PyInt(1) /\ dataset_id = PyStr("dataset123")
    /\ failed_urls = <<>> /\ batch_data_map = NoMap /\ bi = 0 /\ ui = 0
    /\ posts = 0 /\ log = <<>> /\ exc = "none"
    /\ LogQuiet
    /\ \/ /\ pc = "call_build"
          /\ failed_batches \in {None} \cup { BatchDict(bs) : bs \in BatchMaps(BatchShapes) }
          /\ processed_batches \in {None} \cup { MapDict(m) : m \in ProcessedMaps }
          /\ error_message \in {None, PyStr(""), PyStr("<b>Error HTTP:</b>")}
          /\ card_message = None
       \/ /\ pc = "call_post"
          /\ failed_batches = None /\ processed_batches = None /\ error_message = None
          /\ card_message \in NoReports

\* a caller runs build_card_message(failed_batches, processed_batches, days_back,
\* dataset_id, error_message)
CallBuild ==
    /\ pc = "call_build"
    /\ LET card == build_card_message(failed_batches, processed_batches, days_back,
                                      dataset_id, error_message)
       IN  IF IsExc(card)
           THEN pc' = "build_raised" /\ exc' = card.exc /\ UNCHANGED card_message
           ELSE pc' = "built" /\ card_message' = card /\ UNCHANGED exc
    /\ UNCHANGED <<server, failed_batches, processed_batches, error_message, days_back,
                   dataset_id, failed_urls, batch_data_map, bi, ui, posts, log, logVars>>

\* a caller runs post_message_to_google_chat(card_message)
CallPost ==
    /\ pc \in {"built", "call_post"}
    /\ \E outcome \in PostOutcomes :
          LET sent == post_message_to_google_chat(card_message, outcome) IN
          /\ posts' = posts + sent.posts
          /\ log' = log \o sent.log
          /\ exc' = sent.exc
          /\ pc' = IF sent.exc = "none" THEN "returned" ELSE "post_raised"
    /\ UNCHANGED <<server, failed_batches, processed_batches, error_message, days_back,
                   dataset_id, failed_urls, batch_data_map, bi, ui, card_message, logVars>>

NextUnit == CallBuild \/ CallPost

SpecUnit == InitUnit /\ [][NextUnit]_vars

\* build_card_message has been called and has returned or raised
BuildCalled ==
    \/ pc \in {"built", "build_raised"}
    \/ pc \in {"returned", "post_raised"} /\ card_message \notin NoReports

\* C2: for every non-empty failedBatches map and no error message, build_card_message
\* returns a card in which each batch has exactly one batch-details section, whatever
\* the shape of the batch (relatedObjects, errors, tags.flowId absent or empty).
C2_OneSectionPerBatch ==
    (BuildCalled /\ ~Truthy(error_message) /\ Truthy(failed_batches)
       /\ processed_batches # None) =>
        /\ pc # "build_raised"
        /\ Len(card_message.cards.items[1].sections) = 1 + Len(failed_batches.batches)
        /\ \A i \in 1..Len(failed_batches.batches) :
              LET text == card_message.cards.items[1].sections[i + 1].widgets[1].text IN
              text[1] = "Batch ID:" /\ text[2] = failed_batches.batches[i].id

\* C6: when errorMessage is populated, build_card_message returns the single-card
\* error report holding the message verbatim, whatever failedBatches and the
\* enrichment map are.
C6_ErrorBranchFirst ==
    (BuildCalled /\ error_message # None /\ error_message.s # "") =>
        /\ pc # "build_raised"
        /\ card_message.cards.items =
              << [header |-> "¡Algo ha salido mal!",
                  sections |-> << [widgets |-> << [w |-> "textParagraph",
                                                   text |-> <<error_message.s>>] >>] >>] >>

\* the error report was built although there were failed batches to report
C6_Witness ==
    /\ pc = "built" /\ error_message = PyStr("<b>Error HTTP:</b>")
    /\ failed_batches # None /\ failed_batches.batches # <<>>
    /\ processed_batches # None
    /\ card_message.cards.items[1].header = "¡Algo ha salido mal!"

\* C7: post_message_to_google_chat makes no network call when the message is None
\* or has no cards (it logs one error), and makes exactly one POST otherwise,
\* whatever the answer.
C7_PostGuard ==
    /\ posts <= 1
    /\ pc \in {"returned", "post_raised"} =>
          IF card_message \in NoReports
          THEN posts = 0 /\ log = <<"ERROR">> /\ pc = "returned"
          ELSE posts = 1

\* a message with an empty list of cards was handed over and nothing was sent
C7_Witness ==
    /\ pc = "returned" /\ card_message = [t |-> "dict", cards |-> List(<<>>)]
    /\ posts = 0 /\ log = <<"ERROR">>

(***************************************************************************)
(* LoggerManager (logging_config.py) and the logging set-up of             *)
(* BatchProcessor.__init__                                                 *)
(***************************************************************************)
\* File names are sequences of characters, so that startswith, endswith and the
\* order of list.sort() are computed on them.  Alphabet lists the characters used,
\* in code point order.
Alphabet == << "-", ".", "0", "1", "2", "3", "4", "5", "6", "7", "8", "9", "_",
               "a", "b", "g", "l", "o", "p" >>
Ord(c) == CHOOSE i \in 1..Len(Alphabet) : Alphabet[i] = c

StartsWith(name, prefix) ==
    Len(name) >= Len(prefix) /\ SubSeq(name, 1, Len(prefix)) = prefix
EndsWith(name, suffix) ==
    Len(name) >= Len(suffix)
    /\ SubSeq(name, Len(name) - Len(suffix) + 1, Len(name)) = suffix

\* a < b in the order of Python's str comparison
RECURSIVE StrLess(_, _)
StrLess(a, b) ==
    IF b = <<>> THEN FALSE
    ELSE IF a = <<>> THEN TRUE
    ELSE IF Head(a) # Head(b) THEN Ord(Head(a)) < Ord(Head(b))
    ELSE StrLess(Tail(a), Tail(b))

\* the elements of a set of names as list.sort() leaves them
RECURSIVE Sorted(_)
Sorted(names) ==
    IF names = {} THEN <<>>
    ELSE LET least == CHOOSE x \in names : \A y \in names : x = y \/ StrLess(x, y)
         IN  <<least>> \o Sorted(names \ {least})

\* datetime.now().strftime("%d-%m-%Y") on the day of the run, and the day before
Today == << "0", "4", "-", "1", "1", "-", "2", "0", "2", "6" >>
Yesterday == << "0", "3", "-", "1", "1", "-", "2", "0", "2", "6" >>
AppPrefix == << "a", "p", "p", "_" >>
DotLog == << ".", "l", "o", "g" >>
\* line 34: app_<date>.log, the file the RotatingFileHandler opens
TodayLog == AppPrefix \o Today \o DotLog

\* names the log directory may hold: today's log, the backups the rotating handler
\* writes (app_<date>.log.N), other logs of today, a log of another day
FileNames ==
    { TodayLog,
      TodayLog \o << ".", "1" >>,
      TodayLog \o << ".", "2" >>,
      AppPrefix \o Today \o << "_", "a" >> \o DotLog,
      AppPrefix \o Today \o << "_", "b" >> \o DotLog,
      AppPrefix \o Today \o << ".", "b" >> \o DotLog,
      AppPrefix \o Yesterday \o DotLog }

\* the names listed, largest first
RECURSIVE Descending(_)
Descending(names) ==
    IF names = {} THEN <<>>
    ELSE LET most == CHOOSE x \in names : \A y \in names : x = y \/ StrLess(y, x)
         IN  <<most>> \o Descending(names \ {most})

\* _cleanup_old_logs sorting its list in reverse
MatchingLogs_Descending(d, current_date) ==
    Descending({ f \in d : StartsWith(f, AppPrefix \o current_date) /\ EndsWith(f, DotLog) })

\* line 69-73: the names _cleanup_old_logs lists, sorted
MatchingLogs(d, current_date) ==
    Sorted({ f \in d : StartsWith(f, AppPrefix \o current_date) /\ EndsWith(f, DotLog) })

\* the handlers added without looking at logger.handlers
AttachHandlers_NoGuard(hs) == hs \o << "StreamHandler", "RotatingFileHandler" >>

\* line 56-59: the handlers of the root logger after _configure_logging
AttachHandlers(hs) ==
    IF hs = <<>> THEN << "StreamHandler", "RotatingFileHandler" >> ELSE hs

\* line 28-40 of script_alertas.py: logging.basicConfig(handlers=[...]) adds its
\* handlers only to a root logger that has none
basicConfig(hs) ==
    IF hs = <<>> THEN << "TimedRotatingFileHandler", "StreamHandler" >> ELSE hs

\* a removal that passes over a missing file
os_remove_IgnoreMissing(d, file) == [dir |-> d \ {file}, exc |-> "none"]

\* line 78: os.remove(path): the directory after it, and the exception raised
os_remove(d, file) ==
    IF file \in d THEN [dir |-> d \ {file}, exc |-> "none"]
    ELSE [dir |-> d, exc |-> "FileNotFoundError"]

\* LoggerManager.__init__, line 15-18: _configure_logging creates today's log file
\* (the file handler opens it) and attaches the handlers
configure_logging(p) ==
    /\ lpc[p] = "idle" /\ Len(built[p]) < MaxConstructions
    /\ dir' = dir \cup {TodayLog}
    /\ handlers' = [handlers EXCEPT ![p] = AttachHandlers(@)]
    /\ lpc' = [lpc EXCEPT ![p] = "list"]
    /\ UNCHANGED <<backup_count, log_files, built, runVars>>

\* _cleanup_old_logs, line 69-73: list the directory, keep today's logs, sort
cleanup_old_logs_list(p) ==
    /\ lpc[p] = "list"
    /\ log_files' = [log_files EXCEPT ![p] = MatchingLogs(dir, Today)]
    /\ lpc' = [lpc EXCEPT ![p] = "loop"]
    /\ UNCHANGED <<dir, backup_count, handlers, built, runVars>>

\* line 76-78: one iteration of the while loop
cleanup_old_logs_remove(p) ==
    /\ lpc[p] = "loop" /\ Len(log_files[p]) > backup_count
    /\ LET removed == os_remove(dir, Head(log_files[p])) IN
       /\ dir' = removed.dir
       /\ lpc' = [lpc EXCEPT ![p] = IF removed.exc = "none" THEN "loop" ELSE "failed"]
    /\ log_files' = [log_files EXCEPT ![p] = Tail(@)]
    /\ UNCHANGED <<backup_count, handlers, built, runVars>>

\* line 76: the loop ends and the constructor returns
cleanup_old_logs_return(p) ==
    /\ lpc[p] = "loop" /\ Len(log_files[p]) <= backup_count
    /\ lpc' = [lpc EXCEPT ![p] = "idle"]
    /\ built' = [built EXCEPT ![p] = Append(@, "LoggerManager")]
    /\ UNCHANGED <<dir, backup_count, handlers, log_files, runVars>>

\* BatchProcessor.__init__, line 21-41 of script_alertas.py
BatchProcessor_init(p) ==
    /\ lpc[p] = "idle" /\ Len(built[p]) < MaxConstructions
    /\ handlers' = [handlers EXCEPT ![p] = basicConfig(@)]
    /\ built' = [built EXCEPT ![p] = Append(@, "BatchProcessor")]
    /\ UNCHANGED <<dir, backup_count, lpc, log_files, runVars>>

InitLog ==
    /\ RunQuiet
    /\ dir \in SUBSET FileNames
    /\ backup_count \in 0..MaxBackupCount
    /\ lpc = [p \in Procs |-> "idle"]
    /\ handlers = [p \in Procs |-> <<>>]
    /\ log_files = [p \in Procs |-> <<>>]
    /\ built = [p \in Procs |-> <<>>]

\* SpecLog: one process constructs LoggerManager and BatchProcessor objects, one
\* after the other, in any order
NextLog ==
    \/ configure_logging("p1")
    \/ cleanup_old_logs_list("p1")
    \/ cleanup_old_logs_remove("p1")
    \/ cleanup_old_logs_return("p1")
    \/ BatchProcessor_init("p1")

SpecLog == InitLog /\ [][NextLog]_vars

\* SpecRace: two processes (two runs of the script) each construct one
\* LoggerManager on the same log directory
LoggerManager_init(p) == built[p] = <<>> /\ configure_logging(p)

NextRace ==
    \E p \in Procs : LoggerManager_init(p) \/ cleanup_old_logs_list(p) \/ cleanup_old_logs_remove(p) \/ cleanup_old_logs_return(p)

SpecRace == InitLog /\ [][NextRace]_vars

(***************************************************************************)
(* Claims about logging                                                    *)
(***************************************************************************)
\* the construction that configured the root logger of p first
FirstConfiguration(p) == IF built[p] = <<>> THEN "LoggerManager" ELSE built[p][1]

\* C8: sink attachment is idempotent: after any number of LoggerManager and
\* BatchProcessor constructions in one process, in any order, the root logger
\* carries exactly the two handlers the first configuration attached, each once.
C8_HandlersIdempotent ==
    \A p \in Procs :
        handlers[p] =
            IF built[p] = <<>> /\ lpc[p] = "idle" THEN <<>>
            ELSE IF FirstConfiguration(p) = "LoggerManager"
            THEN << "StreamHandler", "RotatingFileHandler" >>
            ELSE << "TimedRotatingFileHandler", "StreamHandler" >>

\* a second LoggerManager was constructed after the first
C8_Witness ==
    /\ built["p1"] = << "LoggerManager", "LoggerManager" >>
    /\ Len(handlers["p1"]) = 2

\* a LoggerManager construction of p has just completed
Constructed(p) ==
    lpc[p] = "idle" /\ built[p] # <<>> /\ built[p][Len(built[p])] = "LoggerManager"

TodaysLogs(d) == { f \in d : StartsWith(f, AppPrefix \o Today) /\ EndsWith(f, DotLog) }

C10_RaceFailsConstruction ==
    [][\A p \in Procs :
          (lpc[p] = "loop" /\ Len(log_files[p]) > backup_count
             /\ Head(log_files[p]) \notin dir /\ log_files'[p] # log_files[p])
          => lpc'[p] = "failed"]_vars

\* two runs listed the same file; one removed it and finished, the other failed
C10_Witness ==
    \E p, q \in Procs :
        /\ p # q
        /\ lpc[p] = "failed"
        /\ built[q] = << "LoggerManager" >>

====
